---- MODULE Spec2Model ----
(***************************************************************************)
(* MtProtoSender (telethon/network/mtproto_sender.py): foreground callers  *)
(* of send()/receive() and the background updates thread sharing one       *)
(* transport under a reentrant lock and two events.                        *)
(***************************************************************************)
EXTENDS Integers, Sequences, FiniteSets, TLC

\* ------------------------------------------------------------- bounds
MaxCalls == 1        \* send+receive invocations per foreground caller
MaxIter == 2         \* iterations of the updates thread loop
MaxInbound == 2      \* envelopes the server delivers to the callers and the thread
MaxInboundAny == 3   \* envelopes of any kind the server delivers to one caller

\* ------------------------------------------------------------ threads
Fg == {"f1", "f2"}
W == "w"
W2 == "w2"
Workers == {W, W2}
Threads == Fg \cup Workers
None == "None"

VARIABLES
  th,                        \* per thread: position, call stack, arguments
  lock,                      \* self._lock (RLock): owner and depth
  waiting_receive,           \* self._waiting_receive
  updates_thread_running,    \* self._updates_thread_running
  updates_thread_receiving,  \* self._updates_thread_receiving
  updates_thread_sleep,      \* self._updates_thread_sleep (0 is None)
  need_confirmation,         \* self._need_confirmation
  on_update_handlers,        \* number of registered update handlers
  logging_out,               \* self.logging_out
  session,                   \* self.session: sequence, salt, last msg_id
  wire,                      \* envelopes written by transport.send, in order
  cancelled,                 \* transport: a pending receive was cancelled
  nrecv,                     \* envelopes delivered so far
  calls,                     \* invocations made by each foreground caller
  iter                       \* loop iterations made by the updates thread

vars == <<th, lock, waiting_receive, updates_thread_running,
          updates_thread_receiving, updates_thread_sleep, need_confirmation,
          on_update_handlers, logging_out, session, wire, cancelled, nrecv,
          calls, iter>>

\* ----------------------------------------------------------- requests
\* a request: msg_id, confirm_received, the request ids on_response was
\* called for, and how many times it was sent
NoReq == [kind |-> "none", msg_id |-> 0, confirm_received |-> FALSE,
          responded |-> <<>>, sends |-> 0]

NewRequest(kind) == [kind |-> kind, msg_id |-> 0, confirm_received |-> FALSE,
                     responded |-> <<>>, sends |-> 0]

\* request.confirmed: content-related requests; MsgsAck is not
confirmed(kind) == kind # "msgs_ack"

\* the updates argument of receive(): None, or a list
NoSink == [given |-> FALSE, items |-> <<>>]
EmptySink == [given |-> TRUE, items |-> <<>>]

InitSalt == 1
NewSalt == 2
StaleMsgId == 90
FloodSeconds == 7
LongFloodSeconds == 8

\* --------------------------------------------------------- RLock
\* with self._lock: blocks while another thread owns the lock
LockNotTaken(t) == TRUE

LockFree(t) == lock.owner \in {None, t}

Acquired(t) == [owner |-> t, count |-> lock.count + 1]

Released(l) == IF l.count <= 1 THEN [owner |-> None, count |-> 0]
               ELSE [owner |-> l.owner, count |-> l.count - 1]

\* --------------------------------------------------------- session
\* session.get_new_msg_id(): strictly increasing
get_new_msg_id(s) == s.last_msg_id + 1

\* session.update_time_offset(correct_msg_id): the offset follows the id
update_time_offset(s, correct_msg_id) == [s EXCEPT !.time_offset = correct_msg_id]

\* session.save(): what is persisted
save(s) == [s EXCEPT !.saved = [salt |-> s.salt, time_offset |-> s.time_offset]]

\* _generate_sequence(confirmed): <<result, session.sequence afterwards>>
generate_sequence_odd(isConfirmed, sequence) ==
  IF isConfirmed THEN <<sequence * 2 + 1, sequence>> ELSE <<sequence * 2, sequence>>

generate_sequence(isConfirmed, sequence) ==
  IF isConfirmed THEN <<sequence * 2 + 1, sequence + 1>> ELSE <<sequence * 2, sequence>>

\* _send_packet up to the call of transport.send: the envelope and the session
Envelope(t, kind, acks, s) ==
  LET id == get_new_msg_id(s)
      sq == generate_sequence(confirmed(kind), s.sequence)
  IN [env |-> [msg_id |-> id, seq |-> sq[1], salt |-> s.salt, kind |-> kind,
               acks |-> acks, by |-> t],
      session |-> [s EXCEPT !.last_msg_id = id, !.sequence = sq[2]]]

\* --------------------------------------------------------- transport
InSend(t) == th[t].pc \in {"send_ack_tx", "send_req_tx"}
InReceive(t) == th[t].pc = "recv_wait"
InTransport(t) == InSend(t) \/ InReceive(t)

\* transport.cancel_receive(): fails the pending receive, if there is one
cancel_receive == \E t \in Threads : InReceive(t)

\* --------------------------------------------------------- returns
\* where a finished send()/receive() continues, by the caller's frame
RetPc(label) ==
  CASE label = "fg_recv" -> "recv_lock"
    [] label = "fg_done" -> "fg_done"
    [] label = "salt_ret" -> "process"
    [] label = "w_ping_recv" -> "recv_lock"
    [] label = "w_after_ping" -> "w_after_ping"
    [] label = "w_got_update" -> "w_got_update"
    [] label = "w_probe1_recv" -> "recv_lock"
    [] label = "w_probe1_done" -> "w_unlock"
    [] label = "w_probe2_recv" -> "recv_lock"
    [] label = "w_probe2_done" -> "w_unlock"

RetStack(stack) ==
  LET label == Head(stack) IN
  CASE label = "fg_recv" -> <<"fg_done">>
    [] label = "w_ping_recv" -> <<"w_after_ping">>
    [] label = "w_probe1_recv" -> <<"w_probe1_done">>
    [] label = "w_probe2_recv" -> <<"w_probe2_done">>
    [] OTHER -> Tail(stack)

Return(r) == [r EXCEPT !.pc = RetPc(Head(r.stack)), !.stack = RetStack(r.stack)]


\* --------------------------------------------------------- inbound messages
\* a decoded payload: its tag, the id it refers to (or salt, error code),
\* the inner tag of an rpc_result, and what a container or gzip wraps
M(tag, ref, kind, sub) == [tag |-> tag, ref |-> ref, kind |-> kind, sub |-> sub]

Update == M("update", 0, "", <<>>)
BadSalt == M("bad_server_salt", NewSalt, "", <<>>)
\* FLOOD_WAIT_n with two values of n
FloodKinds == {"flood", "flood_long"}
ErrKinds == FloodKinds \cup {"migrate", "resend", "error"}

\* error.additional_data of a FLOOD_WAIT_n error
Seconds(kind) == IF kind = "flood" THEN FloodSeconds ELSE LongFloodSeconds

\* what the server may deliver to a receive whose request has msg_id m (0: none)
Bodies(m) ==
  LET ids == IF m = 0 THEN {StaleMsgId} ELSE {m, StaleMsgId}
      own == IF m = 0 THEN StaleMsgId ELSE m
  IN  {M("rpc_result", i, k, <<>>) : i \in ids, k \in {"ok", "gzip"}}
      \cup {M("rpc_result", own, k, <<>>) : k \in ErrKinds}
      \cup {M("pong", i, "", <<>>) : i \in ids}
      \cup {M("bad_msg_notification", c, "", <<>>) : c \in {16, 17, 32}}
      \cup {M("msgs_ack", i, "", <<>>) : i \in ids}
      \cup {Update, BadSalt,
            M("unknown", 0, "", <<>>),
            M("gzip_packed", 0, "", <<Update>>),
            M("msg_container", 0, "", <<M("rpc_result", own, "ok", <<>>), Update>>),
            M("msg_container", 0, "", <<M("rpc_result", StaleMsgId, "ok", <<>>), Update>>),
            M("msg_container", 0, "", <<Update, Update>>),
            M("msg_container", 0, "", <<BadSalt, Update>>)}

\* the answer to request r, an update and a salt change: the messages of a
\* session in which nothing else goes wrong
PlainBodies(r) ==
  (IF r.kind = "none" THEN {}
   ELSE IF r.kind = "ping" THEN {M("pong", r.msg_id, "", <<>>)}
   ELSE {M("rpc_result", r.msg_id, "ok", <<>>)})
  \cup {Update, BadSalt}

Inbound(r, rich) == IF rich THEN Bodies(r.msg_id) ELSE PlainBodies(r)

\* remote msg_id of the n-th envelope; its inner records follow it
RemoteMsgId(n) == 100 + 10 * n

\* a message as _process_msg gets it: its msg_id and body; for a record of a
\* container, inner is set and at is where its header starts in the bytes
Item(id, body, inner, at) == [id |-> id, body |-> body, inner |-> inner, at |-> at]

\* bytes of a container before its first record (code, size) and of the
\* header of a record (inner_msg_id, inner_sequence, inner_length)
ContainerHead == 8
RecordHead == 16

\* the length in bytes of a serialized message
RECURSIVE Size(_), SizeOfRecords(_, _)
Size(body) ==
  CASE body.tag = "rpc_result" ->
         12 + (IF body.kind = "ok" THEN 8 ELSE IF body.kind = "gzip" THEN 12 ELSE 16)
    [] body.tag = "pong" -> 20
    [] body.tag = "bad_server_salt" -> 28
    [] body.tag = "bad_msg_notification" -> 20
    [] body.tag = "msgs_ack" -> 20
    [] body.tag = "gzip_packed" -> 16
    [] body.tag = "msg_container" ->
         ContainerHead + SizeOfRecords(body.sub, Len(body.sub))
    [] OTHER -> 8

\* the bytes of the first n records of a container, headers included
SizeOfRecords(sub, n) ==
  IF n = 0 THEN 0 ELSE SizeOfRecords(sub, n - 1) + RecordHead + Size(sub[n])

\* how far its handler moves the reader over a message, from the start of
\* the message, when the outstanding request is r
Consumed(body, r) ==
  CASE body.tag = "rpc_result" ->
         IF body.kind \in ErrKinds THEN Size(body)
         ELSE IF r.kind = "none" THEN 16
         ELSE IF body.kind = "gzip" THEN Size(body)
         ELSE IF body.ref = r.msg_id THEN Size(body) ELSE 12
    [] body.tag = "pong" -> 12
    [] body.tag = "msg_container" -> ContainerHead
    [] body.tag = "unknown" -> 0
    [] OTHER -> Size(body)

\* whether _process_msg returns a true value for a message that raises
\* nothing: only the bad_server_salt handler does
ReturnsTrue(body) == body.tag = "bad_server_salt"

\* ------------------------------------------------- message handling
\* the outcome of one handler: request, sink, new salt (0: unchanged),
\* flood sleep (0: none), inner messages to process next, and how it ends:
\* "ok", "send" (resend the request) or the error raised
Done(r, u) == [req |-> r, upd |-> u, salt |-> 0, sleep |-> 0, push |-> <<>>,
               offset |-> 0, out |-> "ok"]

Fail(r, u, e) == [Done(r, u) EXCEPT !.out = e]

Responded(r, id) == [r EXCEPT !.responded = Append(@, id)]

\* request.on_response in the gzip_packed branch of an rpc_result
handle_rpc_gzip(r, request_id) == Responded(r, request_id)

\* request.on_response in the plain branch of an rpc_result
handle_rpc_plain(r, request_id) ==
  IF request_id = r.msg_id THEN Responded(r, request_id) ELSE r

handle_rpc_result(body, r, u) ==
  LET has == r.kind # "none"
      r1 == IF has /\ body.ref = r.msg_id
            THEN [r EXCEPT !.confirm_received = TRUE] ELSE r
  IN  IF body.kind \in ErrKinds
      THEN IF body.kind = "resend"
           THEN IF ~has THEN Fail(r1, u, "ValueError")
                ELSE Fail([r1 EXCEPT !.confirm_received = FALSE], u, "RPCError")
           ELSE IF body.kind \in FloodKinds
           THEN [Fail(r1, u, "FloodWaitError") EXCEPT !.sleep = Seconds(body.kind)]
           ELSE IF body.kind = "migrate" THEN Fail(r1, u, "InvalidDCError")
           ELSE Fail(r1, u, "RPCError")
      ELSE IF ~has THEN Fail(r1, u, "ValueError")
           ELSE IF body.kind = "gzip" THEN Done(handle_rpc_gzip(r1, body.ref), u)
           ELSE Done(handle_rpc_plain(r1, body.ref), u)

handle_pong(body, r, u) ==
  IF r.kind = "none" THEN Fail(r, u, "AttributeError")
  ELSE IF body.ref = r.msg_id THEN Done([r EXCEPT !.confirm_received = TRUE], u)
  ELSE Done(r, u)

\* the inner records of a container, each with its own inner_msg_id
InnerItems(id, sub) ==
  [i \in 1..Len(sub) |->
     Item(id + i, sub[i], TRUE, ContainerHead + SizeOfRecords(sub, i - 1))]

handle_container(id, body, r, u) ==
  [Done(r, u) EXCEPT !.push = InnerItems(id, body.sub)]

handle_gzip_packed(id, body, r, u) ==
  [Done(r, u) EXCEPT !.push = <<Item(id, body.sub[1], FALSE, 0)>>]

handle_bad_server_salt(body, r, u) ==
  IF r.kind = "none" THEN [Fail(r, u, "ValueError") EXCEPT !.salt = body.ref]
  ELSE [Done(r, u) EXCEPT !.salt = body.ref, !.out = "send"]

\* every bad_msg_notification is fatal
handle_bad_msg_fatal(id, body, r, u) == Fail(r, u, "BadMessageError")

handle_bad_msg_notification(id, body, r, u) ==
  IF body.ref \in {16, 17} THEN [Done(r, u) EXCEPT !.offset = id]
  ELSE Fail(r, u, "BadMessageError")

\* a msgs_ack handler that takes every ack of the request for its confirmation
handle_msgs_ack_any(body, r, u) ==
  IF r.kind # "none" /\ r.msg_id = body.ref
  THEN Done([r EXCEPT !.confirm_received = TRUE], u)
  ELSE Done(r, u)

handle_msgs_ack(body, r, u) ==
  IF r.kind # "none" /\ r.msg_id = body.ref /\ logging_out
  THEN Done([r EXCEPT !.confirm_received = TRUE], u)
  ELSE Done(r, u)

handle_update(body, r, u) ==
  IF ~u.given THEN Done(r, u) ELSE Done(r, [u EXCEPT !.items = Append(@, body)])

\* _process_msg after the msg_id is noted: dispatch on the tag
Dispatch(item, r, u) ==
  LET b == item.body IN
  CASE b.tag = "rpc_result" -> handle_rpc_result(b, r, u)
    [] b.tag = "pong" -> handle_pong(b, r, u)
    [] b.tag = "msg_container" -> handle_container(item.id, b, r, u)
    [] b.tag = "gzip_packed" -> handle_gzip_packed(item.id, b, r, u)
    [] b.tag = "bad_server_salt" -> handle_bad_server_salt(b, r, u)
    [] b.tag = "bad_msg_notification" -> handle_bad_msg_notification(item.id, b, r, u)
    [] b.tag = "msgs_ack" -> handle_msgs_ack(b, r, u)
    [] b.tag = "update" -> handle_update(b, r, u)
    [] OTHER -> Done(r, u)

\* self._need_confirmation.append(msg_id)
NeedConfirmationSkip(nc, id) == nc

NeedConfirmation(nc, id) == Append(nc, id)

\* the exit test of the receive loop
ReceiveDoneNoUpdate(r, u) ==
  IF r.kind = "none" THEN TRUE ELSE r.confirm_received

ReceiveDone(r, u) ==
  IF r.kind = "none" THEN Len(u.items) > 0 ELSE r.confirm_received


\* --------------------------------------------------------- errors
\* the updates thread's except clauses, by the call the error left:
\* "probe" (GetState), "reconnect", "silent" (ReadCancelled) or "die"
WorkerCatchNoCancel(label, e) ==
  IF label \in {"w_after_ping", "w_got_update"} /\ e = "TimeoutError" THEN "probe"
  ELSE IF label = "w_probe1_done" /\ e = "TimeoutError" THEN "reconnect"
  ELSE "die"

WorkerCatch(label, e) ==
  IF label \in {"w_after_ping", "w_got_update"}
  THEN IF e = "TimeoutError" THEN "probe"
       ELSE IF e = "ReadCancelledError" THEN "silent"
       ELSE "die"
  ELSE IF label = "w_probe1_done" /\ e = "TimeoutError" THEN "reconnect"
  ELSE "die"

\* error e leaves receive() of thread t (record r) while lock l is held:
\* the thread and the lock afterwards
Raise(t, r, e, l) ==
  IF t \in Fg
  THEN [th |-> [r EXCEPT !.pc = "fg_failed", !.stack = <<>>, !.todo = <<>>, !.err = e],
        lock |-> Released(l)]
  ELSE LET how == WorkerCatch(Head(r.stack), e)
           u == [r EXCEPT !.stack = <<>>, !.todo = <<>>]
       IN CASE how = "probe" ->
                 [th |-> [u EXCEPT !.pc = "w_probe1", !.caught = e],
                  lock |-> Released(l)]
            [] how = "reconnect" ->
                 [th |-> [u EXCEPT !.pc = "w_reconnect", !.caught = e],
                  lock |-> Released(l)]
            [] how = "silent" ->
                 [th |-> [u EXCEPT !.pc = "w_clear", !.caught = e],
                  lock |-> Released(Released(l))]
            [] OTHER ->
                 [th |-> [u EXCEPT !.pc = "w_dead", !.err = e],
                  lock |-> Released(Released(l))]

\* --------------------------------------------------------- initial state
NoEnv == [msg_id |-> 0, seq |-> 0, salt |-> 0, kind |-> "none", acks |-> <<>>,
          by |-> None]

Thread0(pc0) == [pc |-> pc0, stack |-> <<>>, req |-> NoReq, upd |-> NoSink,
                 todo |-> <<>>, tx |-> NoEnv, err |-> "none", nread |-> 0,
                 ncancel |-> 0, slept |-> 0, acks0 |-> <<>>, caught |-> "none",
                 got |-> <<>>, stop |-> FALSE, pos |-> 0, handed |-> <<>>]

InitOf(rich) ==
  /\ th = [t \in Threads |-> IF t \in Workers THEN Thread0("none")
                                ELSE Thread0("idle")]
  /\ lock = [owner |-> None, count |-> 0]
  /\ waiting_receive = FALSE
  /\ updates_thread_running = FALSE
  /\ updates_thread_receiving = FALSE
  /\ updates_thread_sleep = 0
  /\ need_confirmation = <<>>
  /\ on_update_handlers \in {0, 1}
  /\ logging_out \in (IF rich THEN BOOLEAN ELSE {FALSE})
  /\ session = [sequence |-> 0, salt |-> InitSalt, last_msg_id |-> 0,
                time_offset |-> 0,
                saved |-> [salt |-> InitSalt, time_offset |-> 0]]
  /\ wire = <<>>
  /\ cancelled = FALSE
  /\ nrecv = 0
  /\ calls = [t \in Fg |-> 0]
  /\ iter = 0

\* --------------------------------------------------------- foreground
\* a caller invokes a request: send(R) then receive(R, updates=sink)
FgInvoke(t, rich) ==
  /\ th[t].pc \in {"idle", "fg_done", "fg_failed"}
  /\ calls[t] < MaxCalls
  /\ \E sink \in (IF rich THEN {NoSink, EmptySink} ELSE {NoSink}) :
       th' = [th EXCEPT ![t] = [Thread0("send_check") EXCEPT
                !.stack = <<"fg_recv">>, !.req = NewRequest("rpc"), !.upd = sink]]
  /\ calls' = [calls EXCEPT ![t] = @ + 1]
  /\ UNCHANGED <<lock, waiting_receive, updates_thread_running,
                 updates_thread_receiving, updates_thread_sleep,
                 need_confirmation, on_update_handlers, logging_out, session,
                 wire, cancelled, nrecv, iter>>

\* a caller calls receive() with neither a request nor an updates list
FgReceiveNothing(t) ==
  /\ th[t].pc \in {"idle", "fg_done", "fg_failed"}
  /\ calls[t] < MaxCalls
  /\ th' = [th EXCEPT ![t] = [Thread0("recv_lock") EXCEPT !.stack = <<"fg_done">>]]
  /\ calls' = [calls EXCEPT ![t] = @ + 1]
  /\ UNCHANGED <<lock, waiting_receive, updates_thread_running,
                 updates_thread_receiving, updates_thread_sleep,
                 need_confirmation, on_update_handlers, logging_out, session,
                 wire, cancelled, nrecv, iter>>

\* a caller calls receive_update(): receive(updates=[])
FgReceiveUpdate(t) ==
  /\ th[t].pc \in {"idle", "fg_done", "fg_failed"}
  /\ calls[t] < MaxCalls
  /\ th' = [th EXCEPT ![t] = [Thread0("recv_lock") EXCEPT
                !.stack = <<"fg_done">>, !.upd = EmptySink]]
  /\ calls' = [calls EXCEPT ![t] = @ + 1]
  /\ UNCHANGED <<lock, waiting_receive, updates_thread_running,
                 updates_thread_receiving, updates_thread_sleep,
                 need_confirmation, on_update_handlers, logging_out, session,
                 wire, cancelled, nrecv, iter>>

\* --------------------------------------------------------- send()
\* line 112: cancel the updates thread's receive if it is receiving
SendCheck(t) ==
  /\ th[t].pc = "send_check"
  /\ th' = [th EXCEPT ![t].pc = "send_lock",
                      ![t].ncancel = IF updates_thread_receiving THEN 1 ELSE 0]
  /\ cancelled' = IF updates_thread_receiving /\ cancel_receive THEN TRUE
                  ELSE cancelled
  /\ UNCHANGED <<lock, waiting_receive, updates_thread_running,
                 updates_thread_receiving, updates_thread_sleep,
                 need_confirmation, on_update_handlers, logging_out, session,
                 wire, nrecv, calls, iter>>

\* line 123: if any message needs confirmation
AcksPendingNever(nc) == FALSE

AcksPending(nc) == nc # <<>>

\* line 196: request.msg_id = self.session.get_new_msg_id()
AssignMsgIdOnce(r, id) ==
  IF r.msg_id = 0 THEN [r EXCEPT !.msg_id = id, !.sends = @ + 1]
  ELSE [r EXCEPT !.sends = @ + 1]

AssignMsgId(r, id) == [r EXCEPT !.msg_id = id, !.sends = @ + 1]

\* _send_packet(request) up to transport.send: the thread and the session
SendRequestPacket(t, r, s) ==
  LET e == Envelope(t, r.req.kind, <<>>, s)
      q == AssignMsgId(r.req, e.env.msg_id)
  IN [th |-> [r EXCEPT !.pc = "send_req_tx", !.req = q,
                       !.tx = [e.env EXCEPT !.msg_id = q.msg_id]],
      session |-> e.session]

\* lines 117-127: take the lock, set waiting_receive, start the first write
SendLock(t) ==
  /\ th[t].pc = "send_lock"
  /\ LockFree(t)
  /\ lock' = Acquired(t)
  /\ waiting_receive' = TRUE
  /\ IF AcksPending(need_confirmation)
     THEN LET e == Envelope(t, "msgs_ack", need_confirmation, session)
          IN /\ th' = [th EXCEPT ![t].pc = "send_ack_tx", ![t].tx = e.env,
                                 ![t].acks0 = need_confirmation]
             /\ session' = e.session
     ELSE LET p == SendRequestPacket(t, th[t], session)
          IN /\ th' = [th EXCEPT ![t] = [p.th EXCEPT !.acks0 = need_confirmation]]
             /\ session' = p.session
  /\ UNCHANGED <<updates_thread_running, updates_thread_receiving,
                 updates_thread_sleep, need_confirmation, on_update_handlers,
                 logging_out, wire, cancelled, nrecv, calls, iter>>

\* line 129: del self._need_confirmation[:]
AcksKept(nc) == nc

AcksCleared(nc) == <<>>

\* lines 127-134: the msgs_ack is written; clear the buffer, write the request
SendAckTx(t) ==
  /\ th[t].pc = "send_ack_tx"
  /\ wire' = Append(wire, th[t].tx)
  /\ need_confirmation' = AcksCleared(need_confirmation)
  /\ LET p == SendRequestPacket(t, th[t], session)
     IN /\ th' = [th EXCEPT ![t] = p.th]
        /\ session' = p.session
  /\ UNCHANGED <<lock, waiting_receive, updates_thread_running,
                 updates_thread_receiving, updates_thread_sleep,
                 on_update_handlers, logging_out, cancelled, nrecv, calls, iter>>

\* lines 134-139: the request is written; save, release the lock, return
SendReqTx(t) ==
  /\ th[t].pc = "send_req_tx"
  /\ wire' = Append(wire, th[t].tx)
  /\ lock' = Released(lock)
  /\ th' = [th EXCEPT ![t] = Return([th[t] EXCEPT !.tx = NoEnv, !.acks0 = <<>>])]
  /\ session' = save(session)
  /\ UNCHANGED <<waiting_receive, updates_thread_running,
                 updates_thread_receiving, updates_thread_sleep,
                 need_confirmation, on_update_handlers, logging_out,
                 cancelled, nrecv, calls, iter>>


\* --------------------------------------------------------- receive()
\* lines 154-164: both arguments None is an error, raised before the lock;
\* else take the lock and call transport.receive
RecvLock(t) ==
  /\ th[t].pc = "recv_lock"
  /\ IF th[t].req.kind = "none" /\ ~th[t].upd.given
     THEN /\ th' = [th EXCEPT ![t].pc = "fg_failed", ![t].stack = <<>>,
                              ![t].err = "ValueError"]
          /\ UNCHANGED lock
     ELSE /\ LockFree(t)
          /\ lock' = Acquired(t)
          /\ th' = [th EXCEPT ![t].pc = "recv_wait", ![t].nread = 0,
                              ![t].ncancel = 0, ![t].got = <<>>]
  /\ UNCHANGED <<waiting_receive, updates_thread_running,
                 updates_thread_receiving, updates_thread_sleep,
                 need_confirmation, on_update_handlers, logging_out, session,
                 wire, cancelled, nrecv, calls, iter>>

\* lines 164-165: transport.receive returns an envelope, which is decoded;
\* the server sends one of bodies, and no more than max envelopes in all
Recv(t, bodies, max) ==
  /\ th[t].pc = "recv_wait"
  /\ ~cancelled
  /\ nrecv < max
  /\ \E b \in bodies :
       LET item == Item(RemoteMsgId(nrecv + 1), b, FALSE, 0)
       IN th' = [th EXCEPT ![t].pc = "process", ![t].nread = 1, ![t].pos = 0,
                   ![t].todo = <<item>>, ![t].got = Append(@, item)]
  /\ nrecv' = nrecv + 1
  /\ UNCHANGED <<lock, waiting_receive, updates_thread_running,
                 updates_thread_receiving, updates_thread_sleep,
                 need_confirmation, on_update_handlers, logging_out, session,
                 wire, cancelled, calls, iter>>

RecvData(t, rich) ==
  Recv(t, Inbound(th[t].req, rich), IF rich THEN MaxInboundAny ELSE MaxInbound)

\* the server answers a caller's request with FLOOD_WAIT_n
RecvFlood(t) ==
  /\ th[t].req.kind = "rpc"
  /\ Recv(t, {M("rpc_result", th[t].req.msg_id, k, <<>>) : k \in FloodKinds},
          MaxInbound)

\* line 164: transport.receive times out
RecvTimeout(t) ==
  /\ th[t].pc = "recv_wait"
  /\ ~cancelled
  /\ LET x == Raise(t, th[t], "TimeoutError", lock)
     IN /\ th' = [th EXCEPT ![t] = x.th]
        /\ lock' = x.lock
  /\ UNCHANGED <<waiting_receive, updates_thread_running,
                 updates_thread_receiving, updates_thread_sleep,
                 need_confirmation, on_update_handlers, logging_out, session,
                 wire, cancelled, nrecv, calls, iter>>

\* line 164: transport.receive was cancelled by cancel_receive()
RecvCancelled(t) ==
  /\ th[t].pc = "recv_wait"
  /\ cancelled
  /\ cancelled' = FALSE
  /\ LET x == Raise(t, th[t], "ReadCancelledError", lock)
     IN /\ th' = [th EXCEPT ![t] = x.th]
        /\ lock' = x.lock
  /\ UNCHANGED <<waiting_receive, updates_thread_running,
                 updates_thread_receiving, updates_thread_sleep,
                 need_confirmation, on_update_handlers, logging_out, session,
                 wire, nrecv, calls, iter>>

\* lines 171-180: the exit test of the loop, with no message left to process:
\* clear waiting_receive, release the lock and return, or read again
LoopTest(t, r, l) ==
  IF r.todo # <<>> THEN [th |-> r, lock |-> l, waiting |-> waiting_receive]
  ELSE IF ReceiveDone(r.req, r.upd)
  THEN [th |-> Return(r), lock |-> Released(l), waiting |-> FALSE]
  ELSE [th |-> [r EXCEPT !.pc = "recv_wait"], lock |-> l, waiting |-> waiting_receive]

\* where the reader stands after the message that no reposition follows
ReaderLeft(begin, length, used) == begin + used

\* line 338: reader.set_position(begin_position + inner_length)
ReaderSet(begin, length, used) == begin + length

\* where the reader stands after _process_msg of item, found at position
\* pos: a record of a container is read from its header at pos (lines
\* 329-332), and the reader is put at its end if the handler returned a
\* false value (lines 335-338)
ReaderAfter(item, pos, r) ==
  IF item.inner
  THEN LET begin == pos + RecordHead
       IN IF ReturnsTrue(item.body)
          THEN ReaderLeft(begin, Size(item.body), Consumed(item.body, r))
          ELSE ReaderSet(begin, Size(item.body), Consumed(item.body, r))
  ELSE Consumed(item.body, r)

\* lines 167-180 and 248-308: process the next message of the envelope, then
\* test the loop's exit if it was the last one
Process(t) ==
  /\ th[t].pc = "process"
  /\ IF th[t].todo = <<>>
     THEN LET x == LoopTest(t, th[t], lock)
          IN /\ th' = [th EXCEPT ![t] = x.th]
             /\ lock' = x.lock
             /\ waiting_receive' = x.waiting
             /\ UNCHANGED <<need_confirmation, session, updates_thread_sleep>>
     ELSE LET item == Head(th[t].todo)
              d == Dispatch(item, th[t].req, th[t].upd)
              r == [th[t] EXCEPT !.req = d.req, !.upd = d.upd,
                                 !.todo = d.push \o Tail(th[t].todo),
                                 !.pos = ReaderAfter(item, th[t].pos, th[t].req)]
              x == CASE d.out = "ok" -> LoopTest(t, r, lock)
                     [] d.out = "send" ->
                          [th |-> [r EXCEPT !.pc = "send_check",
                                            !.stack = <<"salt_ret">> \o @],
                           lock |-> lock, waiting |-> waiting_receive]
                     [] OTHER ->
                          [th |-> Raise(t, r, d.out, lock).th,
                           lock |-> Raise(t, r, d.out, lock).lock,
                           waiting |-> waiting_receive]
          IN /\ need_confirmation' = NeedConfirmation(need_confirmation, item.id)
             /\ session' =
                  LET s1 == IF d.salt # 0 THEN [session EXCEPT !.salt = d.salt]
                            ELSE session
                  IN IF d.offset # 0 THEN save(update_time_offset(s1, d.offset))
                     ELSE s1
             /\ updates_thread_sleep' =
                  IF d.sleep # 0 THEN d.sleep ELSE updates_thread_sleep
             /\ th' = [th EXCEPT ![t] = x.th]
             /\ lock' = x.lock
             /\ waiting_receive' = x.waiting
  /\ UNCHANGED <<updates_thread_running, updates_thread_receiving,
                 on_update_handlers, logging_out, wire, cancelled, nrecv,
                 calls, iter>>

\* --------------------------------------------------------- updates thread
\* an updates thread that was started and has not ended
Alive(w) == th[w].pc \notin {"none", "w_exit", "w_dead"}

\* lines 452-453: the running flag is cleared; the threads h, with a note on
\* each updates thread that was alive while the flag was set
ToldToStop(h) ==
  [t \in Threads |->
     IF t \in Workers /\ Alive(t) /\ updates_thread_running
     THEN [h[t] EXCEPT !.stop = TRUE] ELSE h[t]]

\* disconnect(), also as the first half of reconnect(), called by the
\* application: _set_updates_thread(running=False), then transport.close()
Disconnect ==
  /\ updates_thread_running
  /\ updates_thread_running' = FALSE
  /\ cancelled' = IF updates_thread_receiving /\ cancel_receive THEN TRUE
                  ELSE cancelled
  /\ th' = ToldToStop(th)
  /\ UNCHANGED <<lock, waiting_receive, updates_thread_receiving,
                 updates_thread_sleep, need_confirmation, on_update_handlers,
                 logging_out, session, wire, nrecv, calls, iter>>

\* setup_ping_thread(): create the thread and start it
SetupPingThread(w) ==
  /\ th[w].pc = "none"
  /\ ~updates_thread_running
  /\ updates_thread_running' = TRUE
  /\ th' = [th EXCEPT ![w].pc = "w_loop"]
  /\ UNCHANGED <<lock, waiting_receive, updates_thread_receiving,
                 updates_thread_sleep, need_confirmation, on_update_handlers,
                 logging_out, session, wire, cancelled, nrecv, calls, iter>>

\* lines 463-467: the loop test, then the sleep amount is read
WLoop(w) ==
  /\ th[w].pc = "w_loop"
  /\ IF ~updates_thread_running
     THEN /\ th' = [th EXCEPT ![w].pc = "w_exit"]
          /\ UNCHANGED iter
     ELSE /\ iter < MaxIter
          /\ th' = [th EXCEPT ![w].pc = "w_sleep", ![w].caught = "none",
                              ![w].slept = updates_thread_sleep]
          /\ iter' = iter + 1
  /\ UNCHANGED <<lock, waiting_receive, updates_thread_running,
                 updates_thread_receiving, updates_thread_sleep,
                 need_confirmation, on_update_handlers, logging_out, session,
                 wire, cancelled, nrecv, calls>>

\* lines 468-472: sleep; a flood wait that was slept is cleared
WSleep(w) ==
  /\ th[w].pc = "w_sleep"
  /\ updates_thread_sleep' = IF th[w].slept # 0 THEN 0 ELSE updates_thread_sleep
  /\ th' = [th EXCEPT ![w].pc = "w_check", ![w].slept = 0]
  /\ UNCHANGED <<lock, waiting_receive, updates_thread_running,
                 updates_thread_receiving, need_confirmation,
                 on_update_handlers, logging_out, session, wire, cancelled,
                 nrecv, calls, iter>>

\* line 475: only go on if no caller is waiting to receive
WCheck(w) ==
  /\ th[w].pc = "w_check"
  /\ th' = [th EXCEPT ![w].pc = IF waiting_receive THEN "w_loop" ELSE "w_lock"]
  /\ UNCHANGED <<lock, waiting_receive, updates_thread_running,
                 updates_thread_receiving, updates_thread_sleep,
                 need_confirmation, on_update_handlers, logging_out, session,
                 wire, cancelled, nrecv, calls, iter>>

\* lines 476-483: take the lock; send a ping when the interval has passed
WLock(w) ==
  /\ th[w].pc = "w_lock"
  /\ LockFree(w)
  /\ lock' = Acquired(w)
  /\ \E due \in BOOLEAN :
       th' = IF due
             THEN [th EXCEPT ![w].pc = "send_check", ![w].req = NewRequest("ping"),
                             ![w].upd = NoSink, ![w].handed = <<>>,
                             ![w].stack = <<"w_ping_recv">>]
             ELSE [th EXCEPT ![w].pc = "w_after_ping", ![w].req = NoReq,
                             ![w].upd = NoSink, ![w].handed = <<>>]
  /\ UNCHANGED <<waiting_receive, updates_thread_running,
                 updates_thread_receiving, updates_thread_sleep,
                 need_confirmation, on_update_handlers, logging_out, session,
                 wire, cancelled, nrecv, calls, iter>>

\* lines 487-493: without handlers continue; else receive one update
WAfterPing(w) ==
  /\ th[w].pc = "w_after_ping"
  /\ IF on_update_handlers = 0
     THEN /\ lock' = Released(lock)
          /\ th' = [th EXCEPT ![w].pc = "w_loop", ![w].req = NoReq]
          /\ UNCHANGED updates_thread_receiving
     ELSE /\ updates_thread_receiving' = TRUE
          /\ th' = [th EXCEPT ![w].pc = "recv_lock", ![w].req = NoReq,
                              ![w].upd = EmptySink, ![w].stack = <<"w_got_update">>]
          /\ UNCHANGED lock
  /\ UNCHANGED <<waiting_receive, updates_thread_running, updates_thread_sleep,
                 need_confirmation, on_update_handlers, logging_out, session,
                 wire, cancelled, nrecv, calls, iter>>

\* lines 185-187: receive_update() returns updates[0] of the sink it gave
\* to receive()
receive_update(u) == <<Head(u.items)>>

\* lines 493-496 and 525: what receive_update() returned goes to each
\* handler (handed: what each handler was called with in this iteration);
\* release the lock
WGotUpdate(w) ==
  /\ th[w].pc = "w_got_update"
  /\ lock' = Released(lock)
  /\ th' = [th EXCEPT ![w].pc = "w_clear", ![w].handed = receive_update(th[w].upd)]
  /\ UNCHANGED <<waiting_receive, updates_thread_running,
                 updates_thread_receiving, updates_thread_sleep,
                 need_confirmation, on_update_handlers, logging_out, session,
                 wire, cancelled, nrecv, calls, iter>>

\* lines 501-505: after a timeout, probe with a GetStateRequest
WProbe(w) ==
  /\ th[w].pc = "w_probe1"
  /\ th' = [th EXCEPT ![w].pc = "send_check", ![w].req = NewRequest("getstate"),
                      ![w].upd = NoSink, ![w].stack = <<"w_probe1_recv">>]
  /\ UNCHANGED <<lock, waiting_receive, updates_thread_running,
                 updates_thread_receiving, updates_thread_sleep,
                 need_confirmation, on_update_handlers, logging_out, session,
                 wire, cancelled, nrecv, calls, iter>>

\* lines 507-510 with 57-65 and 441-455: reconnect, then probe once more
WReconnect(w) ==
  /\ th[w].pc = "w_reconnect"
  /\ updates_thread_running' = FALSE
  /\ cancelled' = IF updates_thread_running /\ updates_thread_receiving
                     /\ cancel_receive
                  THEN TRUE ELSE cancelled
  /\ th' = ToldToStop([th EXCEPT ![w].pc = "send_check",
                                 ![w].stack = <<"w_probe2_recv">>])
  /\ UNCHANGED <<lock, waiting_receive, updates_thread_receiving,
                 updates_thread_sleep, need_confirmation, on_update_handlers,
                 logging_out, session, wire, nrecv, calls, iter>>

\* line 525: the probe is answered; release the lock
WUnlock(w) ==
  /\ th[w].pc = "w_unlock"
  /\ lock' = Released(lock)
  /\ th' = [th EXCEPT ![w].pc = "w_clear"]
  /\ UNCHANGED <<waiting_receive, updates_thread_running,
                 updates_thread_receiving, updates_thread_sleep,
                 need_confirmation, on_update_handlers, logging_out, session,
                 wire, cancelled, nrecv, calls, iter>>

\* line 526: self._updates_thread_receiving.clear()
WClear(w) ==
  /\ th[w].pc = "w_clear"
  /\ updates_thread_receiving' = FALSE
  /\ th' = [th EXCEPT ![w].pc = "w_loop"]
  /\ UNCHANGED <<lock, waiting_receive, updates_thread_running,
                 updates_thread_sleep, need_confirmation, on_update_handlers,
                 logging_out, session, wire, cancelled, nrecv, calls, iter>>

\* --------------------------------------------------------- specification
\* the callers in F and the updates thread; rich: the server may send any
\* message, else only answers, updates and salt changes
NextOf(F, rich) ==
  \/ \E t \in F : FgInvoke(t, rich) \/ FgReceiveNothing(t)
  \/ \E t \in F \cup {W} :
       \/ SendCheck(t) \/ SendLock(t) \/ SendAckTx(t) \/ SendReqTx(t)
       \/ RecvLock(t) \/ RecvData(t, rich) \/ RecvTimeout(t)
       \/ RecvCancelled(t) \/ Process(t)
  \/ SetupPingThread(W) \/ WLoop(W) \/ WSleep(W) \/ WCheck(W) \/ WLock(W)
  \/ WAfterPing(W) \/ WGotUpdate(W) \/ WProbe(W) \/ WReconnect(W)
  \/ WUnlock(W) \/ WClear(W)

\* two foreground callers and the updates thread
Init == InitOf(FALSE)
Next == NextOf(Fg, FALSE)
Spec == Init /\ [][Next]_vars

\* one foreground caller alone, and a server that may send any message
InitProto == InitOf(TRUE)
NextProto ==
  \E t \in {"f1"} :
     \/ FgInvoke(t, TRUE) \/ FgReceiveNothing(t) \/ FgReceiveUpdate(t)
     \/ SendCheck(t) \/ SendLock(t) \/ SendAckTx(t) \/ SendReqTx(t)
     \/ RecvLock(t) \/ RecvData(t, TRUE) \/ RecvTimeout(t) \/ Process(t)
SpecProto == InitProto /\ [][NextProto]_vars


\* one foreground caller and the updates thread, scheduled fairly: a thread
\* that can take a step takes one, and a thread blocked on the lock gets it
\* if it is free again and again (the updates thread sleeps between holds)
ThreadStep(t) ==
  \/ SendCheck(t) \/ SendAckTx(t) \/ SendReqTx(t)
  \/ RecvData(t, FALSE) \/ RecvTimeout(t) \/ RecvCancelled(t) \/ Process(t)

WorkerStep ==
  \/ WLoop(W) \/ WSleep(W) \/ WCheck(W) \/ WAfterPing(W) \/ WGotUpdate(W)
  \/ WProbe(W) \/ WReconnect(W) \/ WUnlock(W) \/ WClear(W)

NextFair == NextOf({"f1"}, FALSE)

FairSpec ==
  /\ Init
  /\ [][NextFair]_vars
  /\ \A t \in {"f1", W} :
       /\ WF_vars(ThreadStep(t))
       /\ SF_vars(SendLock(t))
       /\ SF_vars(RecvLock(t))
  /\ WF_vars(WorkerStep)
  /\ SF_vars(WLock(W))

\* two foreground callers and the updates thread, and a server that also
\* answers with FLOOD_WAIT_n
NextFlood ==
  \/ NextOf(Fg, FALSE)
  \/ \E t \in Fg : RecvFlood(t)
SpecFlood == Init /\ [][NextFlood]_vars

\* updates as the server may send them to the updates thread: alone, packed,
\* or several in one container
UpdateBodies ==
  {Update, M("gzip_packed", 0, "", <<Update>>),
   M("msg_container", 0, "", <<Update, Update>>)}

RecvUpdates(w) ==
  /\ th[w].req.kind = "none"
  /\ Recv(w, UpdateBodies, MaxInbound)

\* one foreground caller and the updates thread, and a server that sends the
\* updates thread updates in every packing
NextUpdates ==
  \/ NextOf({"f1"}, FALSE)
  \/ RecvUpdates(W)
SpecUpdates == Init /\ [][NextUpdates]_vars

\* two updates threads at most and the application's calls of
\* setup_ping_thread(), disconnect() and reconnect(); no foreground request
NextLife ==
  \/ Disconnect
  \/ \E w \in Workers :
       \/ SetupPingThread(w) \/ WLoop(w) \/ WSleep(w) \/ WCheck(w) \/ WLock(w)
       \/ WAfterPing(w) \/ WGotUpdate(w) \/ WProbe(w) \/ WReconnect(w)
       \/ WUnlock(w) \/ WClear(w)
       \/ SendCheck(w) \/ SendLock(w) \/ SendAckTx(w) \/ SendReqTx(w)
       \/ RecvLock(w) \/ RecvData(w, FALSE) \/ RecvTimeout(w)
       \/ RecvCancelled(w) \/ Process(w)
SpecLife == Init /\ [][NextLife]_vars

\* ========================================================= properties
Last(q) == q[Len(q)]

\* the updates thread is blocked inside transport.receive for updates
WorkerInUpdatesReceive ==
  /\ th[W].pc = "recv_wait"
  /\ th[W].stack = <<"w_got_update">>

\* a foreground caller whose send(R) has returned and whose receive(R) has
\* not yet taken the lock
BetweenSendAndReceive(f) ==
  /\ th[f].pc = "recv_lock"
  /\ th[f].req.kind # "none"

\* C1: at most one thread is inside transport.send or transport.receive at
\* any moment, whatever the interleaving of the callers and the updates thread
C1_MutualExclusion ==
  \A s, t \in Threads : (s # t /\ InTransport(s)) => ~InTransport(t)

\* a caller in transport.receive while the other caller and the updates
\* thread both wait for the lock
C1_Witness ==
  /\ InReceive("f1")
  /\ th["f2"].pc = "send_lock"
  /\ th[W].pc = "w_lock"

\* C2: between the return of a caller's send(R) and the return of its
\* receive(R) the updates thread is in no transport operation (it holds the
\* lock whenever it is, so it started the operation after send(R) returned)
C2_SendReceiveUnit ==
  \A f \in Fg : BetweenSendAndReceive(f) => ~InTransport(W)


\* thread t returns from send() in this step
SendReturns(t) == th[t].pc = "send_req_tx" /\ th'[t].pc # "send_req_tx"

\* C3: a foreground send(R) invoked while the updates thread is blocked in
\* transport.receive for updates calls cancel_receive() once; the thread then
\* leaves the receive with ReadCancelled, which it handles silently (the lock
\* is released, no error escapes, it goes on to line 526 and the next
\* iteration); and the send gets the lock and returns
C3_CancelledReceive ==
  /\ [][\A f \in Fg :
          (th[f].pc = "send_check" /\ th'[f].pc = "send_lock"
             /\ WorkerInUpdatesReceive)
          => (th'[f].ncancel = 1 /\ cancelled')]_vars
  /\ [][(WorkerInUpdatesReceive /\ cancelled /\ th'[W] # th[W])
          => /\ th'[W].pc = "w_clear"
             /\ th'[W].caught = "ReadCancelledError"
             /\ th'[W].err = "none"
             /\ lock'.owner # W]_vars
  /\ [][(th[W].pc = "w_clear" /\ th'[W] # th[W]) => th'[W].pc = "w_loop"]_vars
  /\ \A f \in {"f1"} :
       (th[f].pc = "send_lock" /\ th[f].ncancel = 1 /\ th[f].stack = <<"fg_recv">>)
         ~> BetweenSendAndReceive(f)

\* the send has returned after its cancel_receive(), and the updates thread
\* has caught ReadCancelled and stands at line 526
C3_Witness ==
  /\ BetweenSendAndReceive("f1")
  /\ th["f1"].ncancel = 1
  /\ th[W].pc = "w_clear"
  /\ th[W].caught = "ReadCancelledError"
  /\ th[W].err = "none"

\* C4: when any send() returns the pending-acknowledgement buffer is empty,
\* and the ids it held when the send took the lock are the ids of the one
\* msgs_ack written just before the request
C4_AckDrain ==
  [][\A t \in Threads :
       SendReturns(t) =>
         /\ need_confirmation' = <<>>
         /\ th[t].acks0 # <<>> =>
              /\ Len(wire') >= 2
              /\ wire'[Len(wire') - 1].acks = th[t].acks0]_vars

\* a caller's send has returned, its msgs_ack and its request are the last
\* two envelopes, and the buffer is empty
C4_Witness ==
  \E t \in Fg :
    /\ BetweenSendAndReceive(t)
    /\ Len(wire) >= 2
    /\ Last(wire).by = t
    /\ wire[Len(wire) - 1].kind = "msgs_ack"
    /\ wire[Len(wire) - 1].acks # <<>>
    /\ need_confirmation = <<>>

\* C5: a send() that found the buffer non-empty when it took the lock has
\* written the msgs_ack envelope and then the request envelope, next to each
\* other; one that found it empty has written no msgs_ack envelope
C5_AckBeforeRequest ==
  [][\A t \in Threads :
       SendReturns(t) =>
         LET n == Len(wire') IN
         /\ wire'[n].kind = th[t].req.kind
         /\ wire'[n].msg_id = th[t].req.msg_id
         /\ wire'[n].by = t
         /\ IF th[t].acks0 # <<>>
            THEN /\ n >= 2
                 /\ wire'[n - 1].kind = "msgs_ack"
                 /\ wire'[n - 1].by = t
            ELSE n = 1 \/ wire'[n - 1].kind # "msgs_ack"]_vars

\* the updates thread's ping went out behind a msgs_ack, after a request that
\* went out without one
C5_Witness ==
  /\ Len(wire) >= 3
  /\ wire[1].kind = "rpc"
  /\ \E i \in 2..(Len(wire) - 1) :
       /\ wire[i].kind = "msgs_ack"
       /\ wire[i].by = W
       /\ wire[i + 1].kind = "ping"

\* content-related envelopes written before position i
ContentBefore(i) == Cardinality({j \in 1..(i - 1) : wire[j].kind # "msgs_ack"})

\* C6: every content-related envelope carries 2n+1 and every msgs_ack 2n,
\* n being the content-related envelopes before it; session.sequence counts
\* the content-related messages (the one being written included)
C6_SequenceParity ==
  /\ \A i \in 1..Len(wire) :
       wire[i].seq = IF wire[i].kind # "msgs_ack"
                     THEN 2 * ContentBefore(i) + 1
                     ELSE 2 * ContentBefore(i)
  /\ session.sequence =
       ContentBefore(Len(wire) + 1)
       + Cardinality({t \in Threads : th[t].pc = "send_req_tx"})

\* three content-related envelopes with a msgs_ack among them
C6_Witness ==
  /\ Len(wire) >= 4
  /\ \E i \in 2..Len(wire) : wire[i].kind = "msgs_ack" /\ wire[i].seq = 2
  /\ \E i \in 1..Len(wire) : wire[i].seq = 5

\* C7: the msg_ids of the envelopes, in the order they were written, are
\* strictly increasing
C7_MonotoneMsgIds ==
  \A i, j \in 1..Len(wire) : i < j => wire[i].msg_id < wire[j].msg_id

\* a request written twice by one caller (a bad-salt retransmission) with a
\* msgs_ack and another thread's envelope on the wire
C7_Witness ==
  \E i, j, k \in 1..Len(wire) :
    /\ i < j /\ j < k
    /\ wire[i].by \in Fg /\ wire[k].by = wire[i].by
    /\ wire[i].kind = "rpc" /\ wire[k].kind = "rpc"
    /\ wire[j].kind = "msgs_ack"
    /\ \E m \in 1..Len(wire) : wire[m].by \notin {wire[i].by, None}

\* the messages of one envelope in the order _process_msg meets them: the
\* envelope, then what a container or a gzip_packed wraps
RECURSIVE Flat(_, _), FlatSub(_, _, _), FlatAll(_, _)
Flat(id, body) ==
  <<[id |-> id, body |-> body]>> \o
    (IF body.tag = "msg_container" THEN FlatSub(id, body.sub, 1)
     ELSE IF body.tag = "gzip_packed" THEN Flat(id, body.sub[1])
     ELSE <<>>)

FlatSub(id, sub, i) ==
  IF i > Len(sub) THEN <<>> ELSE Flat(id + i, sub[i]) \o FlatSub(id, sub, i + 1)

FlatAll(items, i) ==
  IF i > Len(items) THEN <<>>
  ELSE Flat(items[i].id, items[i].body) \o FlatAll(items, i + 1)

\* every message the receive call of thread t has read
Read(t) == FlatAll(th[t].got, 1)

\* the receive call of t read a bad_server_salt / an rpc_result with a
\* non-error body addressed to the request as it stands
ReadBadSalt(t) == \E i \in DOMAIN Read(t) : Read(t)[i].body.tag = "bad_server_salt"

ReadAnswer(t) ==
  \E i \in DOMAIN Read(t) :
    /\ Read(t)[i].body.tag = "rpc_result"
    /\ Read(t)[i].body.kind \notin ErrKinds
    /\ Read(t)[i].body.ref = th[t].req.msg_id

RequestEnvelopes == SelectSeq(wire, LAMBDA e : e.kind = "rpc")

\* C8: a receive(R) that met a bad_server_salt with salt s' and was then
\* answered has returned with: the session salt s'; R written once more for
\* each bad_server_salt, under a msg_id other than its first; every envelope
\* after the first carrying s' and a msg_id above all earlier ones; and
\* R.on_response called exactly once, for R's msg_id
C8_BadSaltRetransmit ==
  LET r == th["f1"].req
      sent == RequestEnvelopes
  IN  (th["f1"].pc = "fg_done" /\ r.sends >= 2 /\ ReadBadSalt("f1")
         /\ ReadAnswer("f1"))
      => /\ session.salt = NewSalt
         /\ Len(sent) = r.sends
         /\ sent[1].msg_id # r.msg_id
         /\ sent[Len(sent)].msg_id = r.msg_id
         /\ \A i \in 2..Len(wire) :
              wire[i].salt = NewSalt /\ wire[i].msg_id > wire[i - 1].msg_id
         /\ r.responded = <<r.msg_id>>

\* C9: receive() has returned normally only after reading an envelope, and
\* with an update in the sink (no request) or the request confirmed; called
\* with neither a request nor a sink it raises ValueError and leaves the
\* lock, the flags, the buffer, the session and the transport as they were
C9_ReceiveReturn ==
  /\ [](\A t \in Fg :
          th[t].pc = "fg_done" =>
            /\ th[t].nread = 1
            /\ Len(th[t].got) >= 1
            /\ IF th[t].req.kind = "none"
               THEN th[t].upd.given /\ Len(th[t].upd.items) >= 1
               ELSE th[t].req.confirm_received)
  /\ [][\A t \in Fg :
          (th[t].pc = "recv_lock" /\ th[t].req.kind = "none"
             /\ ~th[t].upd.given /\ th'[t] # th[t])
          => /\ th'[t].pc = "fg_failed"
             /\ th'[t].err = "ValueError"
             /\ UNCHANGED <<lock, waiting_receive, updates_thread_running,
                            updates_thread_receiving, updates_thread_sleep,
                            need_confirmation, session, wire, cancelled,
                            nrecv>>]_vars

\* receive_update() has returned after an envelope that carried no update
\* and a later one that carried one
C9_Witness ==
  /\ th["f1"].pc = "fg_done"
  /\ th["f1"].req.kind = "none"
  /\ Len(th["f1"].got) >= 2
  /\ th["f1"].got[1].body.tag = "msgs_ack"
  /\ Len(th["f1"].upd.items) = 1

\* the ids of a sequence of messages
Ids(items) == [i \in DOMAIN items |-> items[i].id]

\* the last n elements of q
Suffix(q, n) == SubSeq(q, Len(q) - n + 1, Len(q))

\* the receive call of t read this container as its only envelope
ReadOnly(t, body) == Len(th[t].got) = 1 /\ th[t].got[1].body = body

\* C10: when a receive() that did not retransmit returns, the buffer ends
\* with the msg_id of every message it processed, envelopes and container
\* records alike, in the order processed; after a container with the
\* rpc_result for R and an update, R is confirmed and answered, the update is
\* in the sink and both inner ids are in the buffer; and the buffer only
\* grows at its end until a send() writes a msgs_ack
C10_InboundAcked ==
  /\ [](\A t \in Fg :
          (th[t].pc = "fg_done" /\ th[t].req.sends <= 1) =>
            /\ Len(need_confirmation) >= Len(Read(t))
            /\ Suffix(need_confirmation, Len(Read(t))) = Ids(Read(t))
            /\ ReadOnly(t, M("msg_container", 0, "",
                             <<M("rpc_result", th[t].req.msg_id, "ok", <<>>), Update>>))
               => /\ th[t].req.confirm_received
                  /\ th[t].req.responded = <<th[t].req.msg_id>>
                  /\ th[t].upd.given => th[t].upd.items = <<Update>>
                  /\ need_confirmation =
                       <<th[t].got[1].id, th[t].got[1].id + 1, th[t].got[1].id + 2>>)
  /\ [][need_confirmation' # need_confirmation =>
          \/ /\ need_confirmation' = <<>>
             /\ \E t \in Threads : th[t].pc = "send_ack_tx" /\ th'[t].pc = "send_req_tx"
          \/ /\ Len(need_confirmation') = Len(need_confirmation) + 1
             /\ SubSeq(need_confirmation', 1, Len(need_confirmation)) = need_confirmation]_vars

\* receive(R, updates) has returned after the container <<rpc_result for R,
\* update>>: three ids in the buffer, the update in the sink
C10_Witness ==
  /\ th["f1"].pc = "fg_done"
  /\ ReadOnly("f1", M("msg_container", 0, "",
                      <<M("rpc_result", th["f1"].req.msg_id, "ok", <<>>), Update>>))
  /\ th["f1"].upd.items = <<Update>>
  /\ Len(need_confirmation) = 3

\* thread t processes, in this step, a message with this tag
Processes(t, tag) ==
  /\ th[t].pc = "process"
  /\ th[t].todo # <<>>
  /\ Head(th[t].todo).body.tag = tag
  /\ th'[t] # th[t]

\* the FLOOD_WAIT_n answer a caller's receive(R) processes in this step
FloodAnswer(t) ==
  /\ Processes(t, "rpc_result")
  /\ Head(th[t].todo).body.kind \in FloodKinds
  /\ th[t].req.kind # "none"

\* C11: an rpc_result with FLOOD_WAIT_n makes receive(R) raise FloodWait and
\* sets updates_thread_sleep to n; the updates thread, at its next loop test,
\* reads n, sleeps it and clears the field; and the field, once it holds a
\* flood wait, changes only when the thread clears the value it has slept
C11_FloodWait ==
  [][/\ \A t \in Fg :
          FloodAnswer(t) =>
            /\ th'[t].pc = "fg_failed"
            /\ th'[t].err = "FloodWaitError"
            /\ updates_thread_sleep' = Seconds(Head(th[t].todo).body.kind)
     /\ (th[W].pc = "w_loop" /\ th'[W].pc = "w_sleep")
          => th'[W].slept = updates_thread_sleep
     /\ (th[W].pc = "w_sleep" /\ th'[W].pc = "w_check" /\ th[W].slept # 0)
          => updates_thread_sleep' = 0
     /\ (updates_thread_sleep # 0 /\ updates_thread_sleep' # updates_thread_sleep)
          => /\ th[W].pc = "w_sleep"
             /\ th[W].slept = updates_thread_sleep
             /\ updates_thread_sleep' = 0]_vars

\* C12: a bad_msg_notification with error code 16 or 17 makes the session's
\* time offset follow the msg_id of that inbound message and saves the
\* session, raises nothing and leaves the receive loop reading; with another
\* code BadMessageError leaves receive() and the offset stays as it was
C12_BadMsgNotification ==
  [][\A t \in Fg :
       Processes(t, "bad_msg_notification") =>
         IF Head(th[t].todo).body.ref \in {16, 17}
         THEN /\ session'.time_offset = Head(th[t].todo).id
              /\ session'.saved.time_offset = Head(th[t].todo).id
              /\ th'[t].err = "none"
              /\ th'[t].pc = "recv_wait"
              /\ lock'.owner = t
         ELSE /\ th'[t].pc = "fg_failed"
              /\ th'[t].err = "BadMessageError"
              /\ session' = session]_vars

\* after a notification with code 17 the offset is the id of that envelope,
\* saved, and the caller reads on
C12_Witness ==
  /\ th["f1"].pc = "recv_wait"
  /\ th["f1"].got # <<>>
  /\ Last(th["f1"].got).body = M("bad_msg_notification", 17, "", <<>>)
  /\ session.time_offset = Last(th["f1"].got).id
  /\ session.saved.time_offset = session.time_offset

\* updates thread w is blocked inside transport.receive for updates
InUpdatesReceive(w) ==
  /\ th[w].pc = "recv_wait"
  /\ th[w].stack = <<"w_got_update">>

\* C13: an updates thread that was running when disconnect() was called
\* leaves its loop at its next loop test; and the call that clears the
\* running flag cancels the updates receive that is in flight
C13_DisconnectStops ==
  [][/\ \A w \in Workers :
          (th[w].pc = "w_loop" /\ th[w].stop /\ th'[w].pc # "w_loop")
            => th'[w].pc = "w_exit"
     /\ (updates_thread_running /\ ~updates_thread_running'
           /\ \E w \in Workers : InUpdatesReceive(w))
          => cancelled']_vars

\* the updates thread is inside the receive() that returns to this label
\* and leaves it in this step with TimeoutError
TimesOut(label) ==
  /\ th[W].pc = "recv_wait"
  /\ th[W].stack = <<label>>
  /\ ~cancelled
  /\ th'[W].pc \notin {"recv_wait", "process"}

\* the receive() that returns to this label returns normally in this step
Succeeds(label) ==
  /\ th[W].pc = "process"
  /\ th[W].stack = <<label>>
  /\ th'[W].stack = <<>>
  /\ th'[W].err = "none"

\* the time-out handling of the updates thread up to the retry: a timed-out
\* updates receive is followed by a GetState probe, a timed-out probe by
\* reconnect() and the same probe once more, a timed-out retry by the end
ProbeAndRetry ==
  /\ TimesOut("w_got_update") => th'[W].pc = "w_probe1"
  /\ (th[W].pc = "w_probe1" /\ th'[W] # th[W])
       => /\ th'[W].pc = "send_check"
          /\ th'[W].req.kind = "getstate"
          /\ th'[W].stack = <<"w_probe1_recv">>
  /\ TimesOut("w_probe1_done") => th'[W].pc = "w_reconnect"
  /\ (th[W].pc = "w_reconnect" /\ th'[W] # th[W])
       => /\ th'[W].pc = "send_check"
          /\ th'[W].req.kind = "getstate"
          /\ th'[W].stack = <<"w_probe2_recv">>
  /\ TimesOut("w_probe2_done") => th'[W].pc = "w_dead"

\* C14: a timed-out updates receive is followed by a GetState probe, a
\* timed-out probe by a reconnect and one retry; when the retry is answered
\* the updates thread is still running, and it never leaves its loop
\* otherwise than by a fault (nobody calls disconnect() here)
C14_ProbeRetry ==
  [][/\ ProbeAndRetry
     /\ Succeeds("w_probe2_done") => updates_thread_running'
     /\ th'[W].pc # "w_exit"]_vars

\* the rpc_result thread t processes in this step has a non-error body and
\* answers no outstanding request of t
UnmatchedResult(t) ==
  /\ Processes(t, "rpc_result")
  /\ Head(th[t].todo).body.kind \notin ErrKinds
  /\ \/ th[t].req.kind = "none"
     \/ Head(th[t].todo).body.ref # th[t].req.msg_id

\* C15: an rpc_result with a non-error body for another msg_id, or met with
\* no outstanding request, is discarded: the request is left as it is (no
\* on_response, confirm_received unchanged), nothing is raised and receive()
\* goes on
C15_UnmatchedResultDiscarded ==
  [][\A t \in Fg :
       UnmatchedResult(t) =>
         /\ th'[t].req = th[t].req
         /\ th'[t].err = "none"
         /\ th'[t].pc \in {"recv_wait", "process"}]_vars


\* the record of a container that thread t processes in this step
InnerRecord(t) ==
  /\ th[t].pc = "process" /\ th[t].todo # <<>> /\ Head(th[t].todo).inner
  /\ th'[t] # th[t]

\* C16: after every record of a container for which the dispatcher returned a
\* false value the reader stands at begin_position + inner_length, so the next
\* record is read from its true boundary, and a stale rpc_result inside a
\* container is skipped without a fault.
C16_ContainerFraming ==
  [][\A t \in Fg :
       /\ InnerRecord(t) /\ th'[t].err = "none"
            /\ ~ReturnsTrue(Head(th[t].todo).body)
          => th'[t].pos = Head(th[t].todo).at + RecordHead
                            + Size(Head(th[t].todo).body)
       /\ th'[t].pc = "process" /\ th'[t].todo # <<>> /\ Head(th'[t].todo).inner
          => th'[t].pos = Head(th'[t].todo).at
       /\ InnerRecord(t) /\ Head(th[t].todo).body.tag = "rpc_result"
            /\ Head(th[t].todo).body.kind \notin ErrKinds
            /\ Head(th[t].todo).body.ref = StaleMsgId
          => th'[t].err = "none"
    ]_vars


\* C17: a msgs_ack sets confirm_received of the outstanding request only if the
\* request exists, its msg_id is among the acknowledged ids and logging_out is
\* set; otherwise the request is unchanged; no error is raised and the
\* dispatcher returns a false value.
C17_MsgsAck ==
  [][\A t \in Fg :
       Processes(t, "msgs_ack") =>
         LET b == Head(th[t].todo).body
             r == th[t].req
         IN /\ th'[t].req =
                 IF r.kind # "none" /\ b.ref = r.msg_id /\ logging_out
                 THEN [r EXCEPT !.confirm_received = TRUE] ELSE r
            /\ th'[t].err = "none"
            /\ ~ReturnsTrue(b)
    ]_vars

\* while logging out, the only message a caller read was the msgs_ack of its
\* request, and the request is confirmed
C17_Witness ==
  \E t \in Fg :
    /\ logging_out /\ th[t].req.kind # "none" /\ th[t].req.confirm_received
    /\ Len(th[t].got) = 1 /\ th[t].todo = <<>>
    /\ th[t].got[1].body = M("msgs_ack", th[t].req.msg_id, "", <<>>)


\* C18: at most one updates thread is alive at a time, for every sequence of
\* setup_ping_thread(), disconnect() and reconnect() calls, a second
\* setup_ping_thread() before the old thread has seen the cleared flag included.
C18_OneUpdatesThread == Cardinality({w \in Workers : Alive(w)}) <= 1


\* the receive() call of thread t ends in this step, by a return or by an
\* error; the send() of a bad_server_salt is a call inside it
ReceiveEnds(t) ==
  /\ th[t].pc \in {"recv_wait", "process"}
  /\ th'[t].pc \notin {"recv_wait", "process"}
  /\ ~(th'[t].pc = "send_check" /\ Head(th'[t].stack) = "salt_ret")

\* C19: waiting_receive is clear whenever a receive() call ends, whether it
\* returns or leaves with an error (timeout, RPC error, flood wait, bad
\* message, cancellation), so that a failed receive of a caller does not keep
\* the updates thread from pinging and receiving.
C19_WaitingCleared ==
  [][\A t \in Threads : ReceiveEnds(t) => ~waiting_receive']_vars


\* C20: request.on_response is invoked only for an rpc_result whose request
\* id equals request.msg_id, on every branch of the handler, the gzip_packed
\* one included; a result addressed to another msg_id never fills the request.
C20_OnResponseMatches ==
  [][\A t \in Fg :
       /\ th[t].pc = "process"
       /\ th'[t].req.responded # th[t].req.responded
       => /\ th[t].todo # <<>>
          /\ Head(th[t].todo).body.tag = "rpc_result"
          /\ Head(th[t].todo).body.ref = th[t].req.msg_id
    ]_vars


\* updates thread w holds the lock and is in lines 491-496: inside
\* receive_update(), a send() that a bad_server_salt made it call included,
\* or handing the update it got to the handlers
InsideUpdatesReceive(w) ==
  /\ lock.owner = w
  /\ \/ th[w].stack # <<>> /\ Last(th[w].stack) = "w_got_update"
     \/ th[w].pc = "w_got_update"

\* C21: updates_thread_receiving is set only while an updates thread holds
\* the lock and is inside its updates receive: not while the thread sends and
\* receives its GetState probe, not after it has released the lock, and not
\* after it has ended with an error.
C21_ReceivingOnlyInReceive ==
  updates_thread_receiving => \E w \in Workers : InsideUpdatesReceive(w)


\* updates thread w hands the outcome of its updates receive to the handlers
HandsOver(w) == th[w].pc = "w_got_update" /\ th'[w].pc = "w_clear"

\* C22: every update that the dispatcher appended to the sink during an
\* updates receive of the updates thread is given to every registered handler
\* exactly once; none is dropped when one envelope, a msg_container, carries
\* more than one update.
C22_UpdatesDelivered ==
  [][\A w \in Workers : HandsOver(w) => th'[w].handed = th[w].upd.items]_vars

====
